---- MODULE Spec2Model ----
\* Model of the options dashboard (src/main.py): the per-session cache of
\* option chains keyed by (ticker, expiry), the per-column projection, sort
\* and display formatting of the calls/puts tables, and the summary totals.
EXTENDS Integers, Sequences, FiniteSets, TLC

\* ------------------------------------------------------------------
\* Program constants and model bounds
\* ------------------------------------------------------------------

CACHE_DURATION_HOURS == 2

\* A subset of TICKERS, and expiries offered by the provider.
TICKERS == {"AAPL", "SPY"}
Expiries == {"2024-06-21"}

\* Wall-clock time is counted in whole hours.
MaxTime == 5
MaxReq == 4
\* Hours a t.option_chain call may take (line 86 and line 97 read the clock).
MaxFetchDuration == 1

NIL == "NIL"

\* Nothing rendered by the run (st.stop before the summary).
NoRender == [key |-> NIL]

\* cache_key = f"{stock}_{expiry}"
CacheKey(s, e) == s \o "_" \o e

\* cache_valid computation (lines 84-87)
CacheValidLE(key, cache, fetch_times, now) ==
    key \in DOMAIN cache /\ key \in DOMAIN fetch_times
    /\ now - fetch_times[key] <= CACHE_DURATION_HOURS
CacheValidAlways(key, cache, fetch_times, now) ==
    key \in DOMAIN cache /\ key \in DOMAIN fetch_times
CacheValidNever(key, cache, fetch_times, now) == FALSE
CacheValid(key, cache, fetch_times, now) ==
    key \in DOMAIN cache /\ key \in DOMAIN fetch_times
    /\ now - fetch_times[key] < CACHE_DURATION_HOURS

VARIABLES
    now,            \* datetime.now(), in hours
    cache,          \* st.session_state.cache : key -> [calls, puts]
    fetch_times,    \* st.session_state.fetch_times : key -> time
    stock,          \* selected ticker
    expiry,         \* selected expiry
    pc,             \* "idle", "rendered" (summary and tables shown), "error" (st.stop),
                    \* "uncaught" (t.options raised), "interrupted" (a rerun
                    \* requested by the user ended the run at a yield point)
    providerCalls,  \* number of t.option_chain calls made so far
    rendered,       \* what the last request rendered, or NoRender
    lastAccess,     \* "none", "aborted" (ended before the cache check), "hit",
                    \* "fetched", "refetched", "failed", "stopped" (ended at the
                    \* spinner entry after the cache check, before the fetch)
    time_since_fetch, \* the local time_since_fetch of the last run, or -1
    nreq            \* number of user-triggered script runs

cacheVars == <<now, cache, fetch_times, stock, expiry, pc, providerCalls,
               rendered, lastAccess, time_since_fetch, nreq>>

VARIABLES
    tbl,            \* values of the sort column, one per input row (row i)
    asc_out,        \* row order after sort_values(ascending=True)
    desc_out        \* row order after sort_values(ascending=False)

sortVars == <<tbl, asc_out, desc_out>>

VARIABLES
    callsCols,      \* calls.columns (as a set)
    putsCols,       \* puts.columns (as a set)
    callsOut,       \* columns of calls_df_display, in order
    putsOut,        \* columns of puts_df_display, in order
    colErr,         \* exception raised while building the tables, "interrupted"
                    \* (a rerun requested by the user ended the run), or "none"
    colsDone        \* the tables have been built

colVars == <<callsCols, putsCols, callsOut, putsOut, colErr, colsDone>>

VARIABLES
    callsOIcol, callsVolcol,  \* calls["openInterest"], calls["volume"]
    putsOIcol, putsVolcol,    \* puts["openInterest"], puts["volume"]
    totals,                   \* [calls_oi, calls_vol, puts_oi, puts_vol], or a raised error
    sumDone

sumVars == <<callsOIcol, callsVolcol, putsOIcol, putsVolcol, totals, sumDone>>

VARIABLES
    fmtKind,        \* display column being formatted
    fmtIn,          \* the cell: NaN, or the decimal literal the float was parsed from
    fmtOut,         \* the display string
    fmtDone

fmtVars == <<fmtKind, fmtIn, fmtOut, fmtDone>>

vars == <<cacheVars, sortVars, colVars, sumVars, fmtVars>>

\* Session state setup (lines 57-61): both maps start empty.
Init ==
    /\ now = 0
    /\ cache = [k \in {} |-> NIL]
    /\ fetch_times = [k \in {} |-> 0]
    /\ stock = NIL
    /\ expiry = NIL
    /\ pc = "idle"
    /\ providerCalls = 0
    /\ rendered = NoRender
    /\ lastAccess = "none"
    /\ time_since_fetch = -1
    /\ nreq = 0

\* Lines 102-104: what the rest of the script reads after the fetch block.
Render(key, c, ft) ==
    [key |-> key, calls |-> c[key].calls, puts |-> c[key].puts,
     fetch_time |-> ft[key]]

\* The call takes d hours; line 97 reads datetime.now() after it returns.
FetchDone(d) == now + d <= MaxTime /\ now' = now + d

\* The run goes on to read the entry (lines 102-104), or a rerun requested
\* during the fetch ends it at the spinner exit, after lines 93-97.
RenderOrInterrupt(key, c, ft) ==
    \/ rendered' = Render(key, c, ft) /\ pc' = "rendered"
    \/ rendered' = NoRender /\ pc' = "interrupted"

FetchOkNoTime(key) ==
    LET snap == [calls |-> <<"calls", providerCalls + 1>>,
                 puts |-> <<"puts", providerCalls + 1>>]
        c2 == [k \in DOMAIN cache \cup {key} |-> IF k = key THEN snap ELSE cache[k]]
    IN \E d \in 0..MaxFetchDuration :
       /\ FetchDone(d)
       /\ cache' = c2
       /\ UNCHANGED fetch_times
       /\ IF key \in DOMAIN fetch_times THEN RenderOrInterrupt(key, c2, fetch_times)
          ELSE rendered' = NoRender /\ pc' = "uncaught"
       /\ lastAccess' = IF key \in DOMAIN cache THEN "refetched" ELSE "fetched"

\* t.option_chain(expiry) succeeded (lines 92-97); the returned frames are
\* fresh objects, identified here by the provider call number.  The fetch
\* time is the clock read after the call returned.
FetchOk(key) ==
    LET snap == [calls |-> <<"calls", providerCalls + 1>>,
                 puts |-> <<"puts", providerCalls + 1>>]
        c2 == [k \in DOMAIN cache \cup {key} |-> IF k = key THEN snap ELSE cache[k]]
    IN \E d \in 0..MaxFetchDuration :
       LET ft2 == [k \in DOMAIN fetch_times \cup {key} |->
                      IF k = key THEN now + d ELSE fetch_times[k]]
       IN /\ FetchDone(d)
          /\ cache' = c2
          /\ fetch_times' = ft2
          /\ RenderOrInterrupt(key, c2, ft2)
          /\ lastAccess' = IF key \in DOMAIN cache THEN "refetched" ELSE "fetched"

\* t.option_chain(expiry) raised (lines 98-100): st.error then st.stop; a
\* rerun requested by the user may end the run at st.error instead.
FetchFailStale(key) ==
    /\ \E d \in 0..MaxFetchDuration : FetchDone(d)
    /\ UNCHANGED <<cache, fetch_times>>
    /\ rendered' = IF key \in DOMAIN cache THEN Render(key, cache, fetch_times) ELSE NoRender
    /\ pc' = "error"
    /\ lastAccess' = "failed"
FetchFail(key) ==
    /\ \E d \in 0..MaxFetchDuration : FetchDone(d)
    /\ UNCHANGED <<cache, fetch_times>>
    /\ rendered' = NoRender
    /\ pc' \in {"error", "interrupted"}
    /\ lastAccess' = "failed"

\* One run of the script after the user selects (s, e) (lines 66-104 and the
\* rendering that follows).  The run ends before the cache check, with
\* nothing changed and nothing rendered, if t.options (line 73), the uncached
\* expiry query, raises, or if a rerun requested by the user ends it at the
\* selectboxes (lines 69, 76).
Request(s, e) ==
    LET key == CacheKey(s, e) IN
    /\ nreq < MaxReq
    /\ nreq' = nreq + 1
    /\ stock' = s
    /\ expiry' = e
    /\ \/ /\ pc' \in {"uncaught", "interrupted"}
          /\ rendered' = NoRender
          /\ lastAccess' = "aborted"
          /\ time_since_fetch' = -1
          /\ UNCHANGED <<cache, fetch_times, providerCalls, now>>
       \/ /\ time_since_fetch' =
                IF key \in DOMAIN cache /\ key \in DOMAIN fetch_times
                THEN now - fetch_times[key] ELSE -1
          /\ IF CacheValid(key, cache, fetch_times, now)
             THEN /\ rendered' = Render(key, cache, fetch_times)
                  /\ pc' = "rendered"
                  /\ lastAccess' = "hit"
                  /\ UNCHANGED <<cache, fetch_times, providerCalls, now>>
             ELSE \/ /\ providerCalls' = providerCalls + 1
                     /\ \/ FetchOk(key)
                        \/ FetchFail(key)
                  \* A rerun requested by the user ends the run at the spinner
                  \* entry (line 90, st.empty()), after the check at line 86
                  \* and before t.option_chain is called.
                  \/ /\ pc' = "interrupted"
                     /\ rendered' = NoRender
                     /\ lastAccess' = "stopped"
                     /\ UNCHANGED <<cache, fetch_times, providerCalls, now>>

\* Wall-clock time passes between user interactions.
Tick ==
    /\ now < MaxTime
    /\ now' = now + 1
    /\ UNCHANGED <<cache, fetch_times, stock, expiry, pc, providerCalls,
                   rendered, lastAccess, time_since_fetch, nreq>>

CacheInit == Init
CacheNext == Tick \/ \E s \in TICKERS, e \in Expiries : Request(s, e)

\* ------------------------------------------------------------------
\* Sorting (calls_df.sort_values / puts_df.sort_values, lines 237-241 and
\* 289-293): pandas' single-column sort runs nargsort with the default
\* kind="quicksort" and na_position="last".
\* ------------------------------------------------------------------

\* A cell of a float column: a number, or NaN (missing).
Num(x) == [na |-> FALSE, v |-> x]
NaN == [na |-> TRUE, v |-> 0]
MaxRows == 3
SortVals == {Num(1), Num(2), NaN}
Tables == UNION {[1..n -> SortVals] : n \in 0..MaxRows}

Reverse(sq) == [i \in 1..Len(sq) |-> sq[Len(sq) + 1 - i]]

\* numpy argsort(kind="quicksort") is not stable: the order among equal keys
\* depends on the build (introsort, or the SIMD argsort), so any permutation
\* that orders the keys is a possible result.
RowPermutations(n) == {p \in [1..n -> 1..n] : \A i, j \in 1..n : i # j => p[i] # p[j]}
Argsort(v) ==
    {p \in RowPermutations(Len(v)) : \A i \in 1..Len(v) - 1 : v[p[i]].v <= v[p[i + 1]].v}

\* pandas.core.sorting.nargsort(items, kind, ascending, na_position="last")
NargsortNoFinalReverse(v, ascending) ==
    LET nonNanIdx == SelectSeq([i \in 1..Len(v) |-> i], LAMBDA i : v[i] # NaN)
        nanIdx == SelectSeq([i \in 1..Len(v) |-> i], LAMBDA i : v[i] = NaN)
        nnIdx == IF ascending THEN nonNanIdx ELSE Reverse(nonNanIdx)
        nnVals == [i \in 1..Len(nnIdx) |-> v[nnIdx[i]]]
    IN {[i \in 1..Len(nnIdx) |-> nnIdx[p[i]]] \o nanIdx : p \in Argsort(nnVals)}
Nargsort(v, ascending) ==
    LET nonNanIdx == SelectSeq([i \in 1..Len(v) |-> i], LAMBDA i : v[i] # NaN)
        nanIdx == SelectSeq([i \in 1..Len(v) |-> i], LAMBDA i : v[i] = NaN)
        nnIdx == IF ascending THEN nonNanIdx ELSE Reverse(nonNanIdx)
        nnVals == [i \in 1..Len(nnIdx) |-> v[nnIdx[i]]]
        sorted(p) == [i \in 1..Len(nnIdx) |-> nnIdx[p[i]]]
    IN {(IF ascending THEN sorted(p) ELSE Reverse(sorted(p))) \o nanIdx :
          p \in Argsort(nnVals)}

SortInit ==
    /\ tbl \in Tables
    /\ asc_out = <<>>
    /\ desc_out = <<>>

\* The user picks "Low to High" (ascending) for the table.
SortAscending ==
    /\ asc_out = <<>> /\ Len(tbl) > 0
    /\ asc_out' \in Nargsort(tbl, TRUE)
    /\ UNCHANGED <<tbl, desc_out>>

\* The user picks "High to Low" (descending) for the table.
SortDescending ==
    /\ desc_out = <<>> /\ Len(tbl) > 0
    /\ desc_out' \in Nargsort(tbl, FALSE)
    /\ UNCHANGED <<tbl, asc_out>>

SortNext == SortAscending \/ SortDescending

\* ------------------------------------------------------------------
\* Column projection and renaming (lines 199-218 for calls, 266-270 for
\* puts), and the default sort column (lines 223-228, 275-280).
\* ------------------------------------------------------------------

base_cols == <<"strike", "lastPrice", "volume", "openInterest", "impliedVolatility">>
optional_cols == <<"delta", "theta", "gamma", "vega">>
KnownCols == base_cols \o optional_cols
InputCols == {KnownCols[i] : i \in 1..Len(KnownCols)} \cup {"contractSymbol"}

\* str.capitalize on the Greek names
Capitalize(g) ==
    CASE g = "delta" -> "Delta" [] g = "theta" -> "Theta"
      [] g = "gamma" -> "Gamma" [] g = "vega" -> "Vega"

\* [col for col in base_cols + optional_cols if col in df.columns]
ProjectCols(cols) == SelectSeq(KnownCols, LAMBDA c : c \in cols)

\* rename_map: the five base names, plus the Greeks present in calls_df.
RenameMap(cdfCols) ==
    LET greeks == {optional_cols[i] : i \in 1..Len(optional_cols)} \cap cdfCols
        base == [c \in {"strike", "lastPrice", "volume", "openInterest",
                         "impliedVolatility"} |->
                   CASE c = "strike" -> "Strike" [] c = "lastPrice" -> "Premium"
                     [] c = "volume" -> "Volume" [] c = "openInterest" -> "OI"
                     [] c = "impliedVolatility" -> "IV"]
    IN [c \in DOMAIN base \cup greeks |-> IF c \in DOMAIN base THEN base[c] ELSE Capitalize(c)]

\* DataFrame.rename(columns=map): names not in the map are kept.
RenameCols(sq, m) == [i \in 1..Len(sq) |-> IF sq[i] \in DOMAIN m THEN m[sq[i]] ELSE sq[i]]

ColsInit ==
    /\ callsCols \in SUBSET InputCols
    /\ putsCols \in SUBSET InputCols
    /\ callsOut = <<>>
    /\ putsOut = <<>>
    /\ colErr = "none"
    /\ colsDone = FALSE

\* One run of the table section.  It is reached only if the summary totals
\* (lines 118-121) did not raise KeyError for a missing openInterest or
\* volume column.  Then: project and rename calls, build rename_map,
\* take the default sort index of 'Strike' (list.index raises ValueError when
\* absent), then the same for puts reusing rename_map.  The formatting steps
\* only rewrite cells of columns that exist, so they keep the column list.
BuildTables ==
    LET cProj == ProjectCols(callsCols)
        m == RenameMap({cProj[i] : i \in 1..Len(cProj)})
        cRen == RenameCols(cProj, m)
        pRen == RenameCols(ProjectCols(putsCols), m)
        hasStrike(sq) == \E i \in 1..Len(sq) : sq[i] = "Strike"
        summaryOk == /\ {"openInterest", "volume"} \subseteq callsCols
                     /\ {"openInterest", "volume"} \subseteq putsCols
    IN /\ ~colsDone
       /\ colsDone' = TRUE
       /\ \/ IF ~summaryOk
             THEN colErr' = "KeyError" /\ UNCHANGED <<callsOut, putsOut>>
             ELSE IF ~hasStrike(cRen)
             THEN colErr' = "ValueError" /\ UNCHANGED <<callsOut, putsOut>>
             ELSE IF ~hasStrike(pRen)
             THEN colErr' = "ValueError" /\ callsOut' = cRen /\ UNCHANGED putsOut
             ELSE colErr' = "none" /\ callsOut' = cRen /\ putsOut' = pRen
          \* A rerun requested by the user ends the run at a yield point
          \* before the calls table is sent ...
          \/ colErr' = "interrupted" /\ UNCHANGED <<callsOut, putsOut>>
          \* ... or after it (st.dataframe, line 258) and before the puts table.
          \/ /\ summaryOk /\ hasStrike(cRen)
             /\ colErr' = "interrupted" /\ callsOut' = cRen /\ UNCHANGED putsOut
       /\ UNCHANGED <<callsCols, putsCols>>

ColsNext == BuildTables

\* ------------------------------------------------------------------
\* Summary totals (lines 118-121): int(df[col].sum()).
\* ------------------------------------------------------------------

MaxLen == 2
ColVals == {NaN, Num(100), Num(200)}
Columns == UNION {[1..n -> ColVals] : n \in 0..MaxLen}

RECURSIVE SumSeq(_)
SumSeq(sq) == IF sq = <<>> THEN 0 ELSE Head(sq).v + SumSeq(Tail(sq))

\* Series.sum(): skipna=True, min_count=0, so an empty or all-NaN column sums to 0.
ColSumMinCount1(col) ==
    LET nn == SelectSeq(col, LAMBDA c : ~c.na)
    IN IF nn = <<>> THEN NaN ELSE Num(SumSeq(nn))
ColSum(col) ==
    LET nn == SelectSeq(col, LAMBDA c : ~c.na)
    IN Num(SumSeq(nn))

SumInit ==
    /\ callsOIcol \in Columns /\ callsVolcol \in Columns
    /\ putsOIcol \in Columns /\ putsVolcol \in Columns
    /\ totals = [err |-> "none"]
    /\ sumDone = FALSE

\* calls_oi, calls_vol, puts_oi, puts_vol = int(...sum()); int() of NaN raises ValueError.
Summarize ==
    LET s == <<ColSum(callsOIcol), ColSum(callsVolcol),
               ColSum(putsOIcol), ColSum(putsVolcol)>>
    IN /\ ~sumDone
       /\ sumDone' = TRUE
       /\ totals' = IF \E i \in 1..4 : s[i].na
                    THEN [err |-> "ValueError"]
                    ELSE [err |-> "none", calls_oi |-> s[1].v, calls_vol |-> s[2].v,
                          puts_oi |-> s[3].v, puts_vol |-> s[4].v]
       /\ UNCHANGED <<callsOIcol, callsVolcol, putsOIcol, putsVolcol>>

SumNext == Summarize

SumIdle ==
    /\ callsOIcol = <<>> /\ callsVolcol = <<>> /\ putsOIcol = <<>> /\ putsVolcol = <<>>
    /\ totals = [err |-> "none"] /\ sumDone = FALSE

\* ------------------------------------------------------------------
\* Display formatting (lines 243-256 and 295-308).  A float cell holds the
\* IEEE double nearest to the decimal the provider sent; f"{x:.Nf}" prints
\* the exact binary value rounded half-to-even to N decimals.  Doubles are
\* handled exactly as big integers: x = m / 2^p, with m in [2^52, 2^53) held
\* as base-2^16 limbs (most significant first).
\* ------------------------------------------------------------------

LimbBase == 65536

RECURSIVE ToLimbs(_)
ToLimbs(n) == IF n < LimbBase THEN <<n>> ELSE ToLimbs(n \div LimbBase) \o <<n % LimbBase>>

RECURSIVE FromLimbs(_)
FromLimbs(L) == IF L = <<>> THEN 0
                ELSE FromLimbs(SubSeq(L, 1, Len(L) - 1)) * LimbBase + L[Len(L)]

\* L * k for 0 <= k <= 2^15
RECURSIVE MulSmallAux(_, _, _)
MulSmallAux(L, k, carry) ==
    IF L = <<>> THEN (IF carry = 0 THEN <<>> ELSE ToLimbs(carry))
    ELSE LET x == L[Len(L)] * k + carry
         IN MulSmallAux(SubSeq(L, 1, Len(L) - 1), k, x \div LimbBase) \o <<x % LimbBase>>
MulSmall(L, k) == MulSmallAux(L, k, 0)

\* <<L \div k, L % k>> for 1 <= k <= 2^15
RECURSIVE DivSmallAux(_, _, _)
DivSmallAux(L, k, r) ==
    IF L = <<>> THEN << <<>>, r >>
    ELSE LET x == r * LimbBase + Head(L)
             rest == DivSmallAux(Tail(L), k, x % k)
         IN << <<x \div k>> \o rest[1], rest[2] >>
DivSmall(L, k) == DivSmallAux(L, k, 0)

Odd(L) == L[Len(L)] % 2 = 1

RECURSIVE AddOne(_)
AddOne(L) ==
    IF L = <<>> THEN <<1>>
    ELSE IF L[Len(L)] = LimbBase - 1
         THEN AddOne(SubSeq(L, 1, Len(L) - 1)) \o <<0>>
         ELSE SubSeq(L, 1, Len(L) - 1) \o <<L[Len(L)] + 1>>

ShiftLeft(L, p) ==
    MulSmall(L, 2^(p % 16)) \o [i \in 1..(p \div 16) |-> 0]

\* round-half-even(L / k)
RoundDivSmall(L, k) ==
    LET d == DivSmall(L, k)
    IN IF 2 * d[2] > k \/ (2 * d[2] = k /\ Odd(d[1])) THEN AddOne(d[1]) ELSE d[1]

\* <<L \div 2^s, whether a nonzero bit was shifted out>>
RECURSIVE FloorShift(_, _)
FloorShift(L, s) ==
    IF s = 0 THEN << L, FALSE >>
    ELSE LET c == IF s > 15 THEN 15 ELSE s
             d == DivSmall(L, 2^c)
             rec == FloorShift(d[1], s - c)
         IN << rec[1], rec[2] \/ d[2] # 0 >>

\* round-half-even(L / 2^s), s >= 1
RoundShift(L, s) ==
    LET f == FloorShift(L, s - 1)
        q == DivSmall(f[1], 2)[1]
    IN IF Odd(f[1]) /\ (f[2] \/ Odd(q)) THEN AddOne(q) ELSE q

\* float(d / scale): the double nearest the decimal, as its m for x = m / 2^p
ParseDecimal(d, scale, p) == RoundDivSmall(ShiftLeft(ToLimbs(d), p), scale)

\* The exact value m / 2^p rounded half-to-even to `digits` decimals, in
\* units of 10^-digits (what the "f" format prints).
FormatFixedTrunc(m, p, digits) == FromLimbs(FloorShift(MulSmall(m, 10^digits), p)[1])
FormatFixed(m, p, digits) == FromLimbs(RoundShift(MulSmall(m, 10^digits), p))

\* x * 100 in double arithmetic for x = m / 2^56 in [1/16, 1/8) with the
\* product in [8, 16): the product's m for p = 49.
TimesHundred(m) == RoundShift(MulSmall(m, 100), 7)

RECURSIVE Pad(_, _)
Pad(n, w) == IF w <= 1 THEN ToString(n) ELSE Pad(n \div 10, w - 1) \o ToString(n % 10)

\* the digits of an f-format result given in units of 10^-digits
FixedStr(n, digits) == ToString(n \div 10^digits) \o "." \o Pad(n % 10^digits, digits)

\* f"{int(x):,}"
RECURSIVE Thousands(_)
Thousands(n) == IF n < 1000 THEN ToString(n) ELSE Thousands(n \div 1000) \o "," \o Pad(n % 1000, 3)

\* The display string of one cell of each formatted column.
FormatCell(kind, c) ==
    CASE kind = "Premium" ->
            IF c.na THEN "N/A" ELSE "$" \o FixedStr(FormatFixed(ParseDecimal(c.v, 1000, 52), 52, 2), 2)
      [] kind \in {"Volume", "OI"} ->
            IF c.na THEN "0" ELSE Thousands(c.v)
      [] kind = "IV" ->
            IF c.na THEN "N/A"
            ELSE FixedStr(FormatFixed(TimesHundred(ParseDecimal(c.v, 10000, 56)), 49, 1), 1) \o "%"
      [] kind = "Delta" ->
            IF c.na THEN "N/A" ELSE FixedStr(FormatFixed(ParseDecimal(c.v, 10000, 53), 53, 4), 4)

\* Inputs: Premium in [1, 2) with 3 decimals, IV in [0.081, 0.124] with 4
\* decimals, Delta in [0.5, 1) with 4 decimals, Volume/OI as integers.
FmtInputs(kind) ==
    {NaN} \cup
    CASE kind = "Premium" -> {Num(d) : d \in 1000..1999}
      [] kind \in {"Volume", "OI"} -> {Num(0), Num(7), Num(1000), Num(999999), Num(1234567)}
      [] kind = "IV" -> {Num(d) : d \in 810..1240}
      [] kind = "Delta" -> {Num(d) : d \in 5000..9999}

FmtInit ==
    /\ fmtKind \in {"Premium", "Volume", "OI", "IV", "Delta"}
    /\ fmtIn \in FmtInputs(fmtKind)
    /\ fmtOut = ""
    /\ fmtDone = FALSE

FormatColumn ==
    /\ ~fmtDone
    /\ fmtDone' = TRUE
    /\ fmtOut' = FormatCell(fmtKind, fmtIn)
    /\ UNCHANGED <<fmtKind, fmtIn>>

FmtNext == FormatColumn

FmtIdle == fmtKind = "Premium" /\ fmtIn = NaN /\ fmtOut = "" /\ fmtDone = FALSE

\* The variables of the other parts, held at a fixed value.
SortIdle == tbl = <<>> /\ asc_out = <<>> /\ desc_out = <<>>
ColsIdle ==
    /\ callsCols = {} /\ putsCols = {} /\ callsOut = <<>> /\ putsOut = <<>>
    /\ colErr = "none" /\ colsDone = FALSE

AppInit == CacheInit /\ SortIdle /\ ColsIdle /\ SumIdle /\ FmtIdle
AppNext == CacheNext /\ UNCHANGED <<sortVars, colVars, sumVars, fmtVars>>
Spec == AppInit /\ [][AppNext]_vars

SortSpecInit == SortInit /\ CacheInit /\ ColsIdle /\ SumIdle /\ FmtIdle
SortSpecNext == SortNext /\ UNCHANGED <<cacheVars, colVars, sumVars, fmtVars>>
SortSpec == SortSpecInit /\ [][SortSpecNext]_vars

ColsSpecInit == ColsInit /\ CacheInit /\ SortIdle /\ SumIdle /\ FmtIdle
ColsSpecNext == ColsNext /\ UNCHANGED <<cacheVars, sortVars, sumVars, fmtVars>>
ColsSpec == ColsSpecInit /\ [][ColsSpecNext]_vars

SumSpecInit == SumInit /\ CacheInit /\ SortIdle /\ ColsIdle /\ FmtIdle
SumSpecNext == SumNext /\ UNCHANGED <<cacheVars, sortVars, colVars, fmtVars>>
SumSpec == SumSpecInit /\ [][SumSpecNext]_vars

FmtSpecInit == FmtInit /\ CacheInit /\ SortIdle /\ ColsIdle /\ SumIdle
FmtSpecNext == FmtNext /\ UNCHANGED <<cacheVars, sortVars, colVars, sumVars>>
FmtSpec == FmtSpecInit /\ [][FmtSpecNext]_vars

\* ------------------------------------------------------------------
\* Cache properties
\* ------------------------------------------------------------------

\* A user-triggered run of the script that reaches the cache check (t.options
\* did not raise), and the key it selects.
RequestStep == nreq' = nreq + 1 /\ lastAccess' # "aborted"
SelectedKey == CacheKey(stock', expiry')

\* C1: a run whose key is stored and younger than CACHE_DURATION_HOURS does
\* not call the provider, returns the stored calls/puts unchanged and keeps
\* the stored fetch time.
C1_CacheHitNoFetch ==
    [][ (RequestStep /\ SelectedKey \in DOMAIN cache
         /\ SelectedKey \in DOMAIN fetch_times
         /\ now - fetch_times[SelectedKey] < CACHE_DURATION_HOURS)
        => /\ providerCalls' = providerCalls
           /\ cache' = cache
           /\ fetch_times' = fetch_times
           /\ rendered' # NoRender
           /\ rendered'.calls = cache[SelectedKey].calls
           /\ rendered'.puts = cache[SelectedKey].puts
           /\ rendered'.fetch_time = fetch_times[SelectedKey] ]_vars
C1_Witness == lastAccess = "hit"

\* C2: a run whose key is stored but at least CACHE_DURATION_HOURS old calls
\* the provider; on success it replaces that key's snapshot and sets its
\* fetch time to the time of the run; no key is ever removed.
C2_ExpiredRefetchAtAccess ==
    [][ /\ (RequestStep /\ SelectedKey \in DOMAIN fetch_times
            /\ now - fetch_times[SelectedKey] >= CACHE_DURATION_HOURS)
           => /\ providerCalls' = providerCalls + 1
              /\ lastAccess' \in {"refetched", "failed"}
              /\ lastAccess' = "refetched" =>
                   /\ DOMAIN cache' = DOMAIN cache
                   /\ cache'[SelectedKey] # cache[SelectedKey]
                   /\ fetch_times'[SelectedKey] = now
                   /\ \A k \in DOMAIN cache \ {SelectedKey} :
                         cache'[k] = cache[k] /\ fetch_times'[k] = fetch_times[k]
        /\ DOMAIN cache \subseteq DOMAIN cache' ]_vars

\* C2 (amended): as C2, but the new fetch time is the clock read after the
\* provider call returned (line 97), which is not earlier than the access,
\* and a rerun requested by the user may end the run at the spinner entry
\* before the provider call, leaving the entry unchanged.
C2_ExpiredRefetch ==
    [][ /\ (RequestStep /\ SelectedKey \in DOMAIN fetch_times
            /\ now - fetch_times[SelectedKey] >= CACHE_DURATION_HOURS)
           => /\ lastAccess' \in {"refetched", "failed", "stopped"}
              /\ lastAccess' # "stopped" => providerCalls' = providerCalls + 1
              /\ lastAccess' = "stopped" =>
                   providerCalls' = providerCalls /\ cache' = cache
                   /\ fetch_times' = fetch_times
              /\ lastAccess' = "refetched" =>
                   /\ DOMAIN cache' = DOMAIN cache
                   /\ cache'[SelectedKey] # cache[SelectedKey]
                   /\ fetch_times'[SelectedKey] = now' /\ now' >= now
                   /\ \A k \in DOMAIN cache \ {SelectedKey} :
                         cache'[k] = cache[k] /\ fetch_times'[k] = fetch_times[k]
        /\ DOMAIN cache \subseteq DOMAIN cache' ]_vars
C2_Witness == lastAccess = "refetched" /\ fetch_times[CacheKey(stock, expiry)] > 0

\* C3: a failed provider call ends the run with an error and nothing
\* rendered (no stale data), is made at most once per run, and the provider
\* is only called from a user-triggered run.
C3_FailHaltsWithError ==
    [][ /\ lastAccess' = "failed" /\ RequestStep
           => pc' = "error" /\ rendered' = NoRender
        /\ providerCalls' # providerCalls
           => RequestStep /\ providerCalls' = providerCalls + 1 ]_vars

\* C3 (amended): as C3, except that a rerun requested by the user may end
\* the run at st.error before the message is shown.
C3_FailHalts ==
    [][ /\ lastAccess' = "failed" /\ RequestStep
           => pc' \in {"error", "interrupted"} /\ rendered' = NoRender
        /\ providerCalls' # providerCalls
           => RequestStep /\ providerCalls' = providerCalls + 1 ]_vars

C3_Witness == lastAccess = "failed" /\ pc = "error"

\* C9: a run is served from the cache exactly when its entry is strictly
\* younger than CACHE_DURATION_HOURS, otherwise it refetches; steps that are
\* not runs (time passing, runs ended before the check) never change an entry.
C9_StrictWindowRefetch ==
    [][ /\ RequestStep =>
             /\ (lastAccess' = "hit" <=>
                   (SelectedKey \in DOMAIN fetch_times
                    /\ now - fetch_times[SelectedKey] < CACHE_DURATION_HOURS))
             /\ lastAccess' # "hit" => providerCalls' = providerCalls + 1
        /\ ~RequestStep => cache' = cache /\ fetch_times' = fetch_times ]_vars

\* C9 (amended): as C9, except that a run which finds its entry expired may
\* be ended by a rerun requested by the user at the spinner entry before the
\* refetch; it then changes nothing.
C9_StrictWindow ==
    [][ /\ RequestStep =>
             /\ (lastAccess' = "hit" <=>
                   (SelectedKey \in DOMAIN fetch_times
                    /\ now - fetch_times[SelectedKey] < CACHE_DURATION_HOURS))
             /\ lastAccess' \notin {"hit", "stopped"} => providerCalls' = providerCalls + 1
             /\ lastAccess' = "stopped" =>
                   providerCalls' = providerCalls /\ cache' = cache
                   /\ fetch_times' = fetch_times
        /\ ~RequestStep => cache' = cache /\ fetch_times' = fetch_times ]_vars
C9_Witness == lastAccess = "refetched" /\ time_since_fetch = CACHE_DURATION_HOURS

\* C10: the snapshot map and the fetch-time map always have the same keys, a
\* failed fetch changes neither, and a rendered run shows the entry of the
\* selected (ticker, expiry).
C10_MapsConsistent ==
    /\ [](DOMAIN cache = DOMAIN fetch_times
          /\ (pc = "rendered" =>
                rendered = Render(CacheKey(stock, expiry), cache, fetch_times)))
    /\ [][lastAccess' = "failed" => cache' = cache /\ fetch_times' = fetch_times]_vars
C10_Witness == pc = "rendered" /\ Cardinality(DOMAIN cache) = 2

\* ------------------------------------------------------------------
\* Sort properties
\* ------------------------------------------------------------------

StableFor(out) ==
    \A i, j \in 1..Len(out) :
        (i < j /\ tbl[out[i]] = tbl[out[j]]) => out[i] < out[j]

\* C4: the sort is stable: rows with equal sort values keep their input
\* order, ascending and descending.
C4_Stable == StableFor(asc_out) /\ StableFor(desc_out)

\* C5: when the sort column has no duplicate values (missing values
\* included), the descending order is the reverse of the ascending one.
C5_ReverseOriginal ==
    (asc_out # <<>> /\ desc_out # <<>>
     /\ \A i, j \in 1..Len(tbl) : i # j => tbl[i] # tbl[j])
    => desc_out = Reverse(asc_out)

NonMissing(out) == SelectSeq(out, LAMBDA r : tbl[r] # NaN)
Missing(out) == SelectSeq(out, LAMBDA r : tbl[r] = NaN)
MissingRows == SelectSeq([i \in 1..Len(tbl) |-> i], LAMBDA i : tbl[i] = NaN)

\* C5 (amended): when the non-missing values of the sort column are
\* distinct, the descending order of the non-missing rows is the reverse of
\* the ascending one, and in both orders the rows with a missing value come
\* last, in input order.
C5_ReverseNonMissing ==
    (asc_out # <<>> /\ desc_out # <<>>
     /\ \A i, j \in 1..Len(tbl) : (i # j /\ tbl[i] # NaN) => tbl[i] # tbl[j])
    => /\ NonMissing(desc_out) = Reverse(NonMissing(asc_out))
       /\ asc_out = NonMissing(asc_out) \o MissingRows
       /\ desc_out = NonMissing(desc_out) \o MissingRows
C5_Witness ==
    /\ asc_out # <<>> /\ desc_out # <<>>
    /\ Len(MissingRows) = 1 /\ Len(tbl) = 3
    /\ \A i, j \in 1..Len(tbl) : i # j => tbl[i] # tbl[j]

\* ------------------------------------------------------------------
\* Column properties
\* ------------------------------------------------------------------

FixedName(c) ==
    CASE c = "strike" -> "Strike" [] c = "lastPrice" -> "Premium"
      [] c = "volume" -> "Volume" [] c = "openInterest" -> "OI"
      [] c = "impliedVolatility" -> "IV" [] c = "delta" -> "Delta"
      [] c = "theta" -> "Theta" [] c = "gamma" -> "Gamma" [] c = "vega" -> "Vega"
ExpectedCols(cols) ==
    LET sq == SelectSeq(KnownCols, LAMBDA c : c \in cols)
    IN [i \in 1..Len(sq) |-> FixedName(sq[i])]

\* C6: for any set of input columns (a run not ended by a rerun), both tables are built without error and
\* their columns are exactly the known columns present, in the fixed order,
\* renamed by the fixed map; other columns are dropped.
C6_Projection ==
    (colsDone /\ colErr # "interrupted") =>
        /\ colErr = "none"
        /\ callsOut = ExpectedCols(callsCols)
        /\ putsOut = ExpectedCols(putsCols)

\* ------------------------------------------------------------------
\* Summary properties
\* ------------------------------------------------------------------

RECURSIVE ZeroFilledTotal(_)
ZeroFilledTotal(col) ==
    IF col = <<>> THEN 0
    ELSE (IF Head(col).na THEN 0 ELSE Head(col).v) + ZeroFilledTotal(Tail(col))

\* C7: the four totals are the integer sums of the matching columns, with a
\* missing value counted as 0 (an all-missing column totals 0).
C7_Totals ==
    sumDone =>
        /\ totals.err = "none"
        /\ totals.calls_oi = ZeroFilledTotal(callsOIcol)
        /\ totals.calls_vol = ZeroFilledTotal(callsVolcol)
        /\ totals.puts_oi = ZeroFilledTotal(putsOIcol)
        /\ totals.puts_vol = ZeroFilledTotal(putsVolcol)
C7_Witness ==
    /\ sumDone
    /\ callsOIcol = <<Num(100), NaN>>
    /\ putsVolcol = <<NaN, NaN>>

\* ------------------------------------------------------------------
\* Formatting properties
\* ------------------------------------------------------------------

Grouped ==
    [v \in {0, 7, 1000, 999999, 1234567} |->
        CASE v = 0 -> "0" [] v = 7 -> "7" [] v = 1000 -> "1,000"
          [] v = 999999 -> "999,999" [] v = 1234567 -> "1,234,567"]

\* The decimal d (in units of 10^-k) rounded to k - 1 decimals: the nearest
\* value when d is not halfway, else either neighbour.
RoundedOneLess(d) ==
    IF d % 10 = 5 THEN {d \div 10, d \div 10 + 1} ELSE {(d + 5) \div 10}

FormatOk(premium1005) ==
    fmtDone =>
      CASE fmtKind \in {"Volume", "OI"} ->
             fmtOut = IF fmtIn.na THEN "0" ELSE Grouped[fmtIn.v]
        [] fmtKind = "Premium" ->
             IF fmtIn.na THEN fmtOut = "N/A"
             ELSE /\ \E q \in RoundedOneLess(fmtIn.v) : fmtOut = "$" \o FixedStr(q, 2)
                  /\ fmtIn.v = 1005 => fmtOut = premium1005
        [] fmtKind = "IV" ->
             IF fmtIn.na THEN fmtOut = "N/A"
             ELSE /\ \E q \in RoundedOneLess(fmtIn.v) : fmtOut = FixedStr(q, 1) \o "%"
                  /\ fmtIn.v = 1234 => fmtOut = "12.3%"
        [] fmtKind = "Delta" ->
             fmtOut = IF fmtIn.na THEN "N/A" ELSE FixedStr(fmtIn.v, 4)

\* C8: Volume/OI print with thousands separators or "0" when missing
\* (1234567 -> "1,234,567"); IV prints value*100 to 1 decimal plus "%" or
\* "N/A" (0.1234 -> "12.3%"); Premium prints "$" plus the value to 2
\* decimals or "N/A", with 1.005 -> "$1.01"; Greeks print to 4 decimals or
\* "N/A".
C8_FormatOriginal == FormatOk("$1.01")

\* C8 (amended): as above, except that a Premium exactly halfway between two
\* cents rounds the binary double it is stored as, so 1.005 -> "$1.00".
C8_FormatBinaryRounding == FormatOk("$1.00")
C8_Witness == fmtDone /\ fmtKind = "Premium" /\ fmtIn = Num(1005)

====
